---- MODULE Spec2Model ----
(***************************************************************************)
(* Model of SteamMarketMonitor (skrybing.py): the polling cycle            *)
(* check_price_changes over the SQLite tables price_history and            *)
(* last_prices, the read-only queries, and the run loop with its           *)
(* KeyboardInterrupt handler.                                              *)
(*                                                                         *)
(* Prices are counted in whole units (the REAL column holds what float()   *)
(* parsed); timestamps are the second-resolution strings of                *)
(* datetime.now().strftime, modelled by their rank 1..MaxTime.             *)
(***************************************************************************)
EXTENDS Integers, Sequences, FiniteSets, TLC

\* Python None / SQL NULL: a value outside every price, delta and timestamp.
NULL == -9999

\* self.items: the configured, ordered list of tracked items.
items == <<"A", "B">>

ItemNames == {items[k] : k \in DOMAIN items}

\* Bounds of the model.
MaxTime == 2
MaxPrice == 1
MaxRows == 2
MaxLimit == 2

\* Values of datetime.now().strftime('%Y-%m-%d %H:%M:%S'): local wall-clock
\* time at one-second resolution; it can repeat or step back between cycles.
Timestamps == 1..MaxTime

\* Values float(data['lowest_price']...) can produce.
Prices == 0..MaxPrice

\* What the HTTP request of get_steam_market_price can come back with.
Responses ==
    {[kind |-> "exception", lowest_price |-> NULL],
     [kind |-> "no_success", lowest_price |-> NULL],
     [kind |-> "no_lowest_price", lowest_price |-> NULL]}
    \cup {[kind |-> "ok", lowest_price |-> p] : p \in Prices}

VARIABLES
    disk,            \* the database file: what is committed
    conn,            \* what self.conn / self.cursor see (committed + pending)
    status,          \* "running" | "interrupted" | "crashed"
    pc,              \* position in run / check_price_changes
    idx,             \* position of the for loop in self.items
    current_time,    \* local of check_price_changes
    price,           \* local of check_price_changes
    previous_price,  \* local of check_price_changes
    price_change,    \* local of check_price_changes
    output,          \* last value returned by get_price_history / rows
                     \* written by export_to_csv
    printed          \* the item lines the running call of
                     \* check_price_changes has printed so far, in order

vars == <<disk, conn, status, pc, idx, current_time, price, previous_price,
          price_change, output, printed>>

locals == <<idx, current_time, price, previous_price, price_change>>

-----------------------------------------------------------------------------
\* The tables.

\* CREATE TABLE IF NOT EXISTS price_history / last_prices on a new file.
EmptyDb == [price_history |-> <<>>, last_prices |-> {}]

HistoryRow(item, p, t, change) ==
    [item_name |-> item, price |-> p, timestamp |-> t, price_change |-> change]

\* One printed item line: "{item}: ${price:.2f} ({price_change:+.2f} ...)",
\* or "{item}: ${price:.2f} (новая запись)" when price_change is None.
PrintedLine(item, p, change) ==
    [item_name |-> item, price |-> p, price_change |-> change]

\* The percentage an item line reports: the format string has the fields
\* item, price, price_change and an arrow, and no percentage; nothing else
\* computes one.
ReportedPercent(line) == NULL

LastRow(item, p, t) ==
    [item_name |-> item, last_price |-> p, last_update |-> t]

\* UNIQUE(item_name, timestamp): does the table hold a row with this key?
HasKey(history, item, t) ==
    \E k \in DOMAIN history :
        history[k].item_name = item /\ history[k].timestamp = t

\* Mutant: a plain INSERT INTO with no uniqueness check.
InsertAlways(history, row) == Append(history, row)

\* Mutant: INSERT OR REPLACE: the conflicting row is deleted, the new one added.
InsertOrReplaceHistory(history, row) ==
    Append(SelectSeq(history,
                     LAMBDA r : ~(r.item_name = row.item_name
                                  /\ r.timestamp = row.timestamp)),
           row)

\* Mutant: first observations (NULL price_change) are not logged.
InsertOnlyChanges(history, row) ==
    IF row.price_change = NULL \/ HasKey(history, row.item_name, row.timestamp)
    THEN history
    ELSE Append(history, row)

\* INSERT OR IGNORE INTO price_history: the row gets the next id (the end of
\* the sequence) unless a row with the same (item_name, timestamp) exists.
InsertOrIgnore(history, row) ==
    IF HasKey(history, row.item_name, row.timestamp)
    THEN history
    ELSE Append(history, row)

\* Mutant: INSERT OR IGNORE INTO last_prices: an existing row is kept.
UpsertKeepsOld(last, row) ==
    IF \E r \in last : r.item_name = row.item_name THEN last ELSE last \cup {row}

\* Mutant: the row is replaced only by an observation of a later timestamp.
UpsertIfNewer(last, row) ==
    IF \E r \in last : r.item_name = row.item_name /\ r.last_update >= row.last_update
    THEN last
    ELSE {r \in last : r.item_name # row.item_name} \cup {row}

\* Mutant: the old row is deleted, and the new one is inserted only when
\* the price has changed.
UpsertDropsUnchanged(last, row) ==
    IF \E r \in last : r.item_name = row.item_name /\ r.last_price = row.last_price
    THEN {r \in last : r.item_name # row.item_name}
    ELSE {r \in last : r.item_name # row.item_name} \cup {row}

\* INSERT OR REPLACE INTO last_prices (item_name is the PRIMARY KEY).
InsertOrReplace(last, row) ==
    {r \in last : r.item_name # row.item_name} \cup {row}

\* SELECT last_price FROM last_prices WHERE item_name = ?; fetchone();
\* previous_price = result[0] if result else None
SelectLastPrice(last, item) ==
    LET rs == {r \in last : r.item_name = item}
    IN  IF rs = {} THEN NULL ELSE (CHOOSE r \in rs : TRUE).last_price

\* Mutant: the operands of the subtraction swapped.
PriceChangeSwapped(p, prev) == IF prev # NULL THEN prev - p ELSE NULL

\* Mutant: a first observation is given a delta against 0.
PriceChangeFromZero(p, prev) == IF prev # NULL THEN p - prev ELSE p

\* price_change = None; if previous_price is not None: price - previous_price
PriceChange(p, prev) == IF prev # NULL THEN p - prev ELSE NULL

\* Mutant: an unavailable price comes back as 0 instead of None.
GetSteamMarketPriceZero(resp) ==
    IF resp.kind = "ok" THEN resp.lowest_price ELSE 0

\* get_steam_market_price: the price, or None on an exception, on
\* success = false or on a missing lowest_price.
GetSteamMarketPrice(resp) ==
    IF resp.kind = "ok" THEN resp.lowest_price ELSE NULL

\* Mutant: the loop goes on with a None price.
SkipsNothing(p) == FALSE

\* if price is None: continue
Skips(p) == p = NULL

\* Mutant: autocommit, every statement is written through.
WrittenThrough(committed, pending) == pending

\* sqlite3.connect with the default isolation_level: an INSERT opens a
\* transaction, and the file keeps its committed content until commit().
DiskAfterExecute(committed, pending) == committed

\* Closing the connection or ending the process without commit() rolls the
\* pending transaction back.
Rollback(committed, pending) == committed

-----------------------------------------------------------------------------
\* The queries.

RowsOf(history, item) == SelectSeq(history, LAMBDA r : r.item_name = item)

Range(s) == {s[k] : k \in DOMAIN s}

MaxTimestamp(rows) == CHOOSE t \in {r.timestamp : r \in rows} :
                          \A r \in rows : r.timestamp <= t

\* All orders of the rows that ORDER BY timestamp DESC allows (rows of equal
\* timestamp come in an order SQL leaves open).
RECURSIVE OrderByTimestampDesc(_)
OrderByTimestampDesc(rows) ==
    IF rows = {} THEN {<<>>}
    ELSE UNION {{<<r>> \o rest : rest \in OrderByTimestampDesc(rows \ {r})} :
                r \in {x \in rows : x.timestamp = MaxTimestamp(rows)}}

\* Mutant: the bound of the slice is off by one.
LimitOffByOne(s, n) == SubSeq(s, 1, IF Len(s) < n + 1 THEN Len(s) ELSE n + 1)

\* LIMIT ?
Limit(s, n) == SubSeq(s, 1, IF Len(s) < n THEN Len(s) ELSE n)

\* What SELECT ... WHERE item_name = ? ORDER BY timestamp DESC LIMIT ? with
\* fetchall() can return.
QueryResults(history, item, limit) ==
    {Limit(sorted, limit) :
        sorted \in OrderByTimestampDesc(Range(RowsOf(history, item)))}

-----------------------------------------------------------------------------

Init ==
    /\ disk = EmptyDb
    /\ conn = EmptyDb
    /\ status = "running"
    /\ pc = "sleep"
    /\ idx = 0
    /\ current_time = NULL
    /\ price = NULL
    /\ previous_price = NULL
    /\ price_change = NULL
    /\ output = <<>>
    /\ printed = <<>>

\* Mutant: `break` (or `return`) where the loop should go on.
NextItemBreak ==
    /\ pc' = "sleep"
    /\ idx' = 0
    /\ current_time' = NULL
    /\ printed' = <<>>

\* The end of one iteration of `for item in self.items`: the next item, or
\* the return to run()'s time.sleep.
NextItem ==
    IF idx < Len(items)
    THEN /\ pc' = "fetch"
         /\ idx' = idx + 1
         /\ UNCHANGED <<current_time, printed>>
    ELSE /\ pc' = "sleep"
         /\ idx' = 0
         /\ current_time' = NULL
         /\ printed' = <<>>

\* run(): while True: self.check_price_changes() -- the call, up to the loop.
CheckPriceChanges ==
    /\ status = "running"
    /\ pc = "sleep"
    /\ Len(disk.price_history) < MaxRows
    /\ \E t \in Timestamps : current_time' = t
    /\ pc' = "fetch"
    /\ idx' = 1
    /\ output' = <<>>
    /\ printed' = <<>>
    /\ UNCHANGED <<disk, conn, status, price, previous_price, price_change>>

\* Lines 87-108 for one response of the market: skip the item on None;
\* otherwise read last_prices, compute price_change and print the item line.
FetchWith(resp) ==
    /\ LET p == GetSteamMarketPrice(resp)
           prev == SelectLastPrice(conn.last_prices, items[idx])
       IN  IF Skips(p)
           THEN /\ NextItem
                /\ UNCHANGED <<price, previous_price, price_change>>
           ELSE /\ price' = p
                /\ previous_price' = prev
                /\ price_change' = PriceChange(p, prev)
                /\ printed' = Append(printed,
                                     PrintedLine(items[idx], p, PriceChange(p, prev)))
                /\ pc' = "insert"
                /\ UNCHANGED <<idx, current_time>>
    /\ UNCHANGED <<disk, conn, status, output>>

\* Lines 87-108: fetch the price of items[idx], whatever the market answers.
Fetch ==
    /\ status = "running"
    /\ pc = "fetch"
    /\ \E resp \in Responses : FetchWith(resp)

\* Lines 111-115: INSERT OR IGNORE INTO price_history.
InsertHistory ==
    /\ status = "running"
    /\ pc = "insert"
    /\ LET after == [conn EXCEPT !.price_history =
                        InsertOrIgnore(@, HistoryRow(items[idx], price,
                                                     current_time, price_change))]
       IN  /\ conn' = after
           /\ disk' = DiskAfterExecute(disk, after)
    /\ pc' = "upsert"
    /\ UNCHANGED <<status, locals, output, printed>>

\* Lines 118-122: INSERT OR REPLACE INTO last_prices.
UpsertLastPrice ==
    /\ status = "running"
    /\ pc = "upsert"
    /\ LET after == [conn EXCEPT !.last_prices =
                        InsertOrReplace(@, LastRow(items[idx], price, current_time))]
       IN  /\ conn' = after
           /\ disk' = DiskAfterExecute(disk, after)
    /\ pc' = "commit"
    /\ UNCHANGED <<status, locals, output, printed>>

\* Line 124: self.conn.commit(), then the next iteration.
Commit ==
    /\ status = "running"
    /\ pc = "commit"
    /\ disk' = conn
    /\ NextItem
    /\ price' = NULL
    /\ previous_price' = NULL
    /\ price_change' = NULL
    /\ UNCHANGED <<conn, status, output>>

\* Lines 168-170: Ctrl-C anywhere in the loop; run() closes the connection
\* without committing and returns. pc, idx and current_time stay as the
\* place the exception was raised at; the other locals are gone, and so is
\* the call whose output `printed` is.
KeyboardInterrupt ==
    /\ status = "running"
    /\ status' = "interrupted"
    /\ conn' = Rollback(disk, conn)
    /\ disk' = Rollback(disk, conn)
    /\ price' = NULL
    /\ previous_price' = NULL
    /\ price_change' = NULL
    /\ printed' = <<>>
    /\ UNCHANGED <<pc, idx, current_time, output>>

\* A statement or the commit raises sqlite3.Error (disk full, locked file):
\* run() catches only KeyboardInterrupt, so the exception ends the process.
SqliteError ==
    /\ status = "running"
    /\ pc \in {"insert", "upsert", "commit"}
    /\ status' = "crashed"
    /\ conn' = Rollback(disk, conn)
    /\ disk' = Rollback(disk, conn)
    /\ price' = NULL
    /\ previous_price' = NULL
    /\ price_change' = NULL
    /\ printed' = <<>>
    /\ UNCHANGED <<pc, idx, current_time, output>>

\* The script is started again: __init__ opens the same db_file.
Restart ==
    /\ status # "running"
    /\ status' = "running"
    /\ conn' = disk
    /\ pc' = "sleep"
    /\ idx' = 0
    /\ current_time' = NULL
    /\ price' = NULL
    /\ previous_price' = NULL
    /\ price_change' = NULL
    /\ output' = <<>>
    /\ printed' = <<>>
    /\ UNCHANGED <<disk>>

\* get_price_history(item_name, limit)
GetPriceHistory ==
    /\ status = "running"
    /\ pc = "sleep"
    /\ \E item \in ItemNames, limit \in 0..MaxLimit :
         \E rows \in QueryResults(conn.price_history, item, limit) :
            output' = rows
    /\ UNCHANGED <<disk, conn, status, pc, locals, printed>>

\* export_to_csv: the data rows written after the header.
ExportToCsv ==
    /\ status = "running"
    /\ pc = "sleep"
    /\ \E sorted \in OrderByTimestampDesc(Range(conn.price_history)) :
          output' = sorted
    /\ UNCHANGED <<disk, conn, status, pc, locals, printed>>

Next ==
    \/ CheckPriceChanges
    \/ Fetch
    \/ InsertHistory
    \/ UpsertLastPrice
    \/ Commit
    \/ KeyboardInterrupt
    \/ SqliteError
    \/ Restart

\* The program as __main__ runs it: construct the monitor, run().
Spec == Init /\ [][Next]_vars

\* The program together with callers of its public read methods.
NextApi ==
    \/ Next
    \/ GetPriceHistory
    \/ ExportToCsv

SpecApi == Init /\ [][NextApi]_vars

\* A response whose lowest_price parses to a negative number ("-$1.00"
\* becomes "-1.00" after replace('$', ''), and float() accepts it).
InvalidResponses == {[kind |-> "ok", lowest_price |-> -1]}

\* Lines 87-108 when the market answers with such a price.
FetchInvalid ==
    /\ status = "running"
    /\ pc = "fetch"
    /\ \E resp \in InvalidResponses : FetchWith(resp)

\* The program fed with malformed prices as well.
NextInvalid ==
    \/ Next
    \/ FetchInvalid

SpecInvalid == Init /\ [][NextInvalid]_vars

-----------------------------------------------------------------------------
\* The run of the documented example: items A and B, prices in cents.
\* Cycle 1 gets A = $10.00 and nothing for B; cycle 2, at a later second,
\* gets A = $12.50 and B = $5.00.

\* Bound: the seconds the cycles of the example can run at.
MaxExampleTime == 3

ExampleTimestamps == 1..MaxExampleTime

ExampleFetch ==
    <<[A |-> [kind |-> "ok", lowest_price |-> 1000],
       B |-> [kind |-> "no_lowest_price", lowest_price |-> NULL]],
      [A |-> [kind |-> "ok", lowest_price |-> 1250],
       B |-> [kind |-> "ok", lowest_price |-> 500]]>>

\* The file as cycle 1 of the example leaves it, run at second t.
AfterExampleCycle1(t) ==
    [price_history |-> <<HistoryRow("A", 1000, t, NULL)>>,
     last_prices |-> {LastRow("A", 1000, t)}]

\* Which cycle of the example the item items[idx] is being processed in:
\* the first until the file holds a row for every item up to it.
ExampleCycle == IF Len(disk.price_history) < idx THEN 1 ELSE 2

\* check_price_changes is called for cycle 1 on the empty file, and for
\* cycle 2, at a later second, on the file cycle 1 has left.
CheckPriceChangesExample ==
    /\ status = "running"
    /\ pc = "sleep"
    /\ \E t \in ExampleTimestamps :
          /\ \/ disk = EmptyDb
             \/ \E t1 \in ExampleTimestamps :
                   t1 < t /\ disk = AfterExampleCycle1(t1)
          /\ current_time' = t
    /\ pc' = "fetch"
    /\ idx' = 1
    /\ output' = <<>>
    /\ printed' = <<>>
    /\ UNCHANGED <<disk, conn, status, price, previous_price, price_change>>

\* Lines 87-108 with the answer the example gives for the item.
FetchExample ==
    /\ status = "running"
    /\ pc = "fetch"
    /\ FetchWith(ExampleFetch[ExampleCycle][items[idx]])

NextExample ==
    \/ CheckPriceChangesExample
    \/ FetchExample
    \/ InsertHistory
    \/ UpsertLastPrice
    \/ Commit
    \/ KeyboardInterrupt
    \/ SqliteError
    \/ Restart

SpecExample == Init /\ [][NextExample]_vars

-----------------------------------------------------------------------------
\* Vocabulary of the properties.

Item == items[idx]

UniqueKeys(history) ==
    \A j, k \in DOMAIN history :
        (history[j].item_name = history[k].item_name
         /\ history[j].timestamp = history[k].timestamp) => j = k

IsPrefix(s, t) == Len(s) <= Len(t) /\ SubSeq(t, 1, Len(s)) = s

LastRowsOf(last, item) == {r \in last : r.item_name = item}

\* The step is the commit() of the observation of Item.
CommitStep == status = "running" /\ pc = "commit" /\ status' = "running"

\* The step is the INSERT OR IGNORE of the observation of Item.
InsertStep == status = "running" /\ pc = "insert" /\ pc' = "upsert"

\* The step ends the process (Ctrl-C or an uncaught exception).
StopStep == status = "running" /\ status' # "running"

-----------------------------------------------------------------------------
\* C1. Dedup law: price_history, committed or pending, never holds two rows
\* with the same (item_name, timestamp), and the insert of an observation
\* whose (item, timestamp) already has a row leaves price_history as it was,
\* whatever the observed price.
C1_DedupLaw ==
    /\ [](UniqueKeys(disk.price_history) /\ UniqueKeys(conn.price_history))
    /\ [][(InsertStep /\ HasKey(conn.price_history, Item, current_time))
            => conn'.price_history = conn.price_history]_vars

\* An observation of a price other than the stored one has been inserted for
\* an (item, timestamp) whose row was committed by an earlier cycle.
C1_Witness ==
    /\ status = "running"
    /\ pc = "upsert"
    /\ \E k \in DOMAIN disk.price_history :
          /\ disk.price_history[k].item_name = Item
          /\ disk.price_history[k].timestamp = current_time
          /\ disk.price_history[k].price # price
    /\ conn.price_history = disk.price_history

\* C2 as stated: every last_prices row equals the (price, timestamp) of the
\* item's price_history row with the greatest timestamp.
C2_LastPriceIsGreatestTimestampRow ==
    \A r \in disk.last_prices :
        LET rows == Range(RowsOf(disk.price_history, r.item_name))
        IN  /\ rows # {}
            /\ \E h \in rows :
                  /\ h.timestamp = MaxTimestamp(rows)
                  /\ h.timestamp = r.last_update
                  /\ h.price = r.last_price

\* C2 amended: every committed last_prices row has a price_history row with
\* its (item_name, last_update), and whenever a commit adds a price_history
\* row, last_prices holds that row's (price, timestamp) for the item.
C2_LastPriceFollowsLastWrite ==
    /\ [](\A r \in disk.last_prices :
             HasKey(disk.price_history, r.item_name, r.last_update))
    /\ [][Len(disk'.price_history) > Len(disk.price_history)
            => LET h == disk'.price_history[Len(disk'.price_history)]
               IN  LastRowsOf(disk'.last_prices, h.item_name)
                     = {LastRow(h.item_name, h.price, h.timestamp)}]_vars

\* A committed last_prices row whose last_update is older than the greatest
\* timestamp of the item's history.
C2_Witness ==
    \E r \in disk.last_prices :
        /\ HasKey(disk.price_history, r.item_name, r.last_update)
        /\ r.last_update
             < MaxTimestamp(Range(RowsOf(disk.price_history, r.item_name)))

\* C3. Atomic record: the file changes only in a commit step, which brings
\* both writes of the observation at once; a step that ends the process
\* leaves the file as it was and drops what was pending; so in the file an
\* item has a last_prices row exactly when it has price_history rows.
C3_AtomicRecord ==
    /\ [][/\ disk' # disk =>
                /\ CommitStep
                /\ disk' = [price_history |->
                               InsertOrIgnore(disk.price_history,
                                   HistoryRow(Item, price, current_time,
                                              price_change)),
                            last_prices |->
                               InsertOrReplace(disk.last_prices,
                                   LastRow(Item, price, current_time))]
          /\ StopStep => (disk' = disk /\ conn' = disk)]_vars
    /\ [](\A x \in ItemNames :
             LastRowsOf(disk.last_prices, x) # {}
               <=> Len(RowsOf(disk.price_history, x)) > 0)

\* The process was interrupted after both statements of a first observation
\* and before its commit; the file holds neither write.
C3_Witness ==
    /\ status = "interrupted"
    /\ pc = "commit"
    /\ LastRowsOf(disk.last_prices, Item) = {}
    /\ Len(RowsOf(disk.price_history, Item)) = 0
    /\ conn = disk

\* C4. Skip-on-unavailable: the step that gets None for an item changes no
\* table and moves on; the rows of an item change only in steps of that
\* item's own iteration, run with a fetched price; and no stored price is
\* NULL.
C4_SkipOnUnavailable ==
    /\ [][/\ (status = "running" /\ pc = "fetch" /\ price' = NULL)
                => (conn' = conn /\ disk' = disk /\ pc' \in {"fetch", "sleep"})
          /\ \A x \in ItemNames :
                (\/ RowsOf(conn'.price_history, x) # RowsOf(conn.price_history, x)
                 \/ RowsOf(disk'.price_history, x) # RowsOf(disk.price_history, x)
                 \/ LastRowsOf(conn'.last_prices, x) # LastRowsOf(conn.last_prices, x)
                 \/ LastRowsOf(disk'.last_prices, x) # LastRowsOf(disk.last_prices, x))
                => (status = "running" /\ price # NULL /\ Item = x)]_vars
    /\ [](/\ \A k \in DOMAIN conn.price_history :
                conn.price_history[k].price # NULL
          /\ \A r \in conn.last_prices : r.last_price # NULL)

\* The second item is being fetched in a cycle that skipped the first one,
\* whose rows are those of an earlier cycle.
C4_Witness ==
    /\ status = "running"
    /\ pc = "fetch"
    /\ idx = 2
    /\ \E r \in disk.last_prices :
          r.item_name = items[1] /\ r.last_update # current_time

\* C5. First observation: the commit of an observation of an item with no
\* last_prices row carries no change, leaves exactly the last_prices row
\* (price, current_time) and exactly one price_history row of the item, with
\* a NULL price_change.
C5_FirstObservation ==
    [][(CommitStep /\ LastRowsOf(disk.last_prices, Item) = {})
         => /\ price_change = NULL
            /\ LastRowsOf(disk'.last_prices, Item)
                 = {LastRow(Item, price, current_time)}
            /\ RowsOf(disk'.price_history, Item)
                 = <<HistoryRow(Item, price, current_time, NULL)>>]_vars

\* A first observation has been committed.
C5_Witness ==
    /\ status = "running"
    /\ \E r \in disk.last_prices :
          RowsOf(disk.price_history, r.item_name)
            = <<HistoryRow(r.item_name, r.last_price, r.last_update, NULL)>>

\* C6. Change-detection delta: when the observed price differs from the
\* stored last price, previous_price is the last_prices value, price_change
\* is price - previous_price, and a row the insert appends carries it.
C6_ChangeDelta ==
    [][(InsertStep /\ previous_price # NULL /\ price # previous_price)
         => /\ previous_price = SelectLastPrice(disk.last_prices, Item)
            /\ price_change = price - previous_price
            /\ Len(conn'.price_history) > Len(conn.price_history)
                 => conn'.price_history[Len(conn'.price_history)]
                      = HistoryRow(Item, price, current_time,
                                   price - SelectLastPrice(disk.last_prices, Item))]_vars

\* A changed price has been inserted as a new row.
C6_Witness ==
    /\ status = "running"
    /\ pc = "upsert"
    /\ previous_price # NULL
    /\ price # previous_price
    /\ Len(conn.price_history) > Len(disk.price_history)

\* C7 as stated: an observation at the stored last price computes no change
\* (price_change stays None), and price_history keeps one row per
\* (item, timestamp).
C7_NoChangeOnEqualPrice ==
    /\ (status = "running" /\ pc \in {"insert", "upsert", "commit"}
        /\ previous_price # NULL /\ price = previous_price)
          => price_change = NULL
    /\ UniqueKeys(conn.price_history)

\* C8. Last write wins: the commit of an observation leaves exactly the
\* last_prices row (price, current_time) for the item.
C8_LastWriteWins ==
    [][CommitStep
         => LastRowsOf(disk'.last_prices, Item)
              = {LastRow(Item, price, current_time)}]_vars

\* A committed last_prices row whose price is not the one of the
\* price_history row of its timestamp: the insert was ignored, the upsert
\* was not.
C8_Witness ==
    \E r \in disk.last_prices :
        \E k \in DOMAIN disk.price_history :
            /\ disk.price_history[k].item_name = r.item_name
            /\ disk.price_history[k].timestamp = r.last_update
            /\ disk.price_history[k].price # r.last_price

\* C9. Every item with a committed last_prices row has a price_history row.
C9_LastPriceHasHistory ==
    \A r \in disk.last_prices :
        \E k \in DOMAIN disk.price_history :
            disk.price_history[k].item_name = r.item_name

\* Both items have a committed last_prices row.
C9_Witness ==
    \A x \in ItemNames : LastRowsOf(disk.last_prices, x) # {}

\* C10. Append-only: every step of a cycle, a query or an export keeps the
\* committed price_history rows and their order, adding rows at the end at
\* most; the connection's view is extended the same way or falls back to
\* the committed rows.
C10_AppendOnly ==
    [][/\ IsPrefix(disk.price_history, disk'.price_history)
       /\ \/ IsPrefix(conn.price_history, conn'.price_history)
          \/ conn'.price_history = disk.price_history]_vars

\* A query or an export has returned rows of a history of several rows.
C10_Witness ==
    /\ Len(output) > 0
    /\ Len(disk.price_history) > 1

\* The place of an item in self.items.
Pos(item) == CHOOSE k \in DOMAIN items : items[k] = item

\* C11 as stated: the lines a cycle prints follow the order of self.items,
\* and the changes among them (the lines carrying a price_change) leave out
\* every item whose price did not change.
C11_ChangesInOrderWithoutUnchanged ==
    /\ \A j, k \in DOMAIN printed :
          j < k => Pos(printed[j].item_name) < Pos(printed[k].item_name)
    /\ \A k \in DOMAIN printed :
          printed[k].price_change # NULL => printed[k].price_change # 0

\* C12. A fetch failure never aborts: no step taken from the fetch ends the
\* process with an exception; the step that gets None goes to the next item
\* of the same cycle (or, after the last item, back to the sleep of run());
\* the fetch of an item can always be taken, and so can the next cycle while
\* the model's bound on the history leaves room.
C12_FetchFailureNeverAborts ==
    /\ [][(status = "running" /\ pc = "fetch")
            => /\ status' # "crashed"
               /\ (status' = "running" /\ pc' # "insert")
                    => /\ price' = NULL
                       /\ IF idx < Len(items)
                          THEN pc' = "fetch" /\ idx' = idx + 1
                               /\ current_time' = current_time
                          ELSE pc' = "sleep"]_vars
    /\ []((status = "running" /\ pc = "fetch") => ENABLED Fetch)
    /\ []((status = "running" /\ pc = "sleep"
           /\ Len(disk.price_history) < MaxRows) => ENABLED CheckPriceChanges)

\* The second item is about to be committed in a cycle whose first item was
\* unavailable: its line is the only one printed.
C12_Witness ==
    /\ status = "running"
    /\ pc = "commit"
    /\ idx = 2
    /\ Len(printed) = 1
    /\ printed[1].item_name = items[2]

\* C13 as stated: a failing durable write never ends the run (the cycle
\* goes on with the next item), and the file keeps the item's rows.
C13_StorageFailureNeverAborts ==
    /\ status # "crashed"
    /\ status # "running" => conn = disk

\* C14 as stated: every stored price is >= 0, a negative fetched price being
\* dropped like an unavailable one.
C14_StoredPricesNonNegative ==
    /\ \A k \in DOMAIN conn.price_history : conn.price_history[k].price >= 0
    /\ \A r \in conn.last_prices : r.last_price >= 0

\* The item is Tracked: it has a committed last_prices row.
Tracked(db, x) == LastRowsOf(db.last_prices, x) # {}

\* C15. Per-item state machine: a Tracked item stays Tracked in every step;
\* an item becomes Tracked only by the commit of an observation of it; the
\* fetch of a Tracked item can always be taken, and a stopped process can be
\* started again on the same file.
C15_ItemStateMachine ==
    /\ [][\A x \in ItemNames :
            /\ Tracked(disk, x) => Tracked(disk', x)
            /\ (~Tracked(disk, x) /\ Tracked(disk', x))
                 => (CommitStep /\ Item = x /\ price # NULL)]_vars
    /\ []((status = "running" /\ pc = "fetch" /\ Tracked(disk, Item))
            => ENABLED Fetch)
    /\ [](status # "running" => ENABLED Restart)

\* A Tracked item has been observed and committed a second time.
C15_Witness ==
    \E x \in ItemNames :
        Tracked(disk, x) /\ Len(RowsOf(disk.price_history, x)) > 1

Min(a, b) == IF a < b THEN a ELSE b

\* C16. queryHistory: where the method can be called (between the cycles of
\* a running monitor), whatever get_price_history(item, limit) can return
\* holds only price_history rows of the item, min(limit, number of the
\* item's rows) of them, in strictly descending timestamp order, and every
\* row of the item left out is older than every row returned; a step that
\* sets the returned value changes neither table.
C16_QueryHistory ==
    /\ []((status = "running" /\ pc = "sleep") =>
          \A item \in ItemNames, limit \in 0..MaxLimit :
            \A out \in QueryResults(conn.price_history, item, limit) :
               LET rows == Range(RowsOf(conn.price_history, item))
               IN  /\ \A k \in DOMAIN out : out[k] \in rows
                   /\ Len(out) = Min(limit, Len(RowsOf(conn.price_history, item)))
                   /\ \A j, k \in DOMAIN out :
                         j < k => out[j].timestamp > out[k].timestamp
                   /\ \A r \in rows \ Range(out) :
                         \A k \in DOMAIN out : r.timestamp < out[k].timestamp)
    /\ [][output' # output => (disk' = disk /\ conn' = conn)]_vars

\* A call with limit 1 has returned the one row of greatest timestamp of an
\* item that has two rows, and that row is the one inserted first.
C16_Witness ==
    /\ Len(output) = 1
    /\ LET rows == RowsOf(conn.price_history, output[1].item_name)
       IN  /\ Len(rows) = 2
           /\ output[1] = rows[1]
           /\ rows[1].timestamp > rows[2].timestamp

\* The step with which check_price_changes returns to run().
CycleEnds ==
    status = "running" /\ pc \in {"fetch", "commit"}
    /\ status' = "running" /\ pc' = "sleep"

\* The changes among the printed lines: those carrying a price_change.
Changes(lines) == SelectSeq(lines, LAMBDA l : l.price_change # NULL)

\* C17. Example scenario (cents): when cycle 1 (A = 1000, B unavailable)
\* ends, the file holds last_prices = {A: 1000} and one price_history row,
\* and no change was printed; when the later cycle 2 (A = 1250, B = 500)
\* ends, exactly one change was printed, A with +250, B was printed as a
\* new record, and the file holds last_prices = {A: 1250, B: 500} and three
\* price_history rows, B's with a NULL price_change.
C17_ExampleScenario ==
    [][CycleEnds =>
         IF ExampleCycle = 1
         THEN /\ \E t \in ExampleTimestamps : disk' = AfterExampleCycle1(t)
              /\ Changes(printed) = <<>>
         ELSE /\ \E t1, t2 \in ExampleTimestamps :
                   /\ t1 < t2
                   /\ disk'.price_history
                        = <<HistoryRow("A", 1000, t1, NULL),
                            HistoryRow("A", 1250, t2, 250),
                            HistoryRow("B", 500, t2, NULL)>>
                   /\ disk'.last_prices
                        = {LastRow("A", 1250, t2), LastRow("B", 500, t2)}
              /\ Changes(printed) = <<PrintedLine("A", 1250, 250)>>
              /\ printed = <<PrintedLine("A", 1250, 250),
                             PrintedLine("B", 500, NULL)>>]_vars

\* Cycle 2 of the example has ended.
C17_Witness ==
    /\ status = "running"
    /\ pc = "sleep"
    /\ Len(disk.price_history) = 3
    /\ SelectLastPrice(disk.last_prices, "A") = 1250
    /\ SelectLastPrice(disk.last_prices, "B") = 500

\* C18 as stated: a printed change of a price reports the percentage
\* (next - prev) / prev * 100, undefined (NULL) when prev = 0; and an
\* observation made on a stored price of 0 is recorded all the same.
C18_PercentReported ==
    /\ \A k \in DOMAIN printed :
          LET l == printed[k]
              prev == l.price - l.price_change
          IN  (l.price_change # NULL /\ l.price_change # 0)
                => IF prev = 0
                   THEN ReportedPercent(l) = NULL
                   ELSE ReportedPercent(l) * prev = l.price_change * 100
    /\ (status = "running" /\ pc = "commit" /\ previous_price = 0)
          => /\ HasKey(conn.price_history, Item, current_time)
             /\ LastRow(Item, price, current_time) \in conn.last_prices

\* C19 as stated: in the committed price_history, the first row of every
\* item has a NULL price_change and every later row r of the item has
\* price_change = r.price - (price of the item's row inserted before r).
C19_HistoryDeltasChain ==
    \A x \in ItemNames :
        LET rows == RowsOf(disk.price_history, x)
        IN  \A k \in DOMAIN rows :
               rows[k].price_change
                 = IF k = 1 THEN NULL ELSE rows[k].price - rows[k - 1].price

====
